---- MODULE Spec2Model ----
(***************************************************************************)
(* Model of the two trie programs of the repository:                       *)
(*   trie_homework_task1.py : TrieNode, Trie, Homework                     *)
(*   longest_common_word.py : TrieNode (with pass_count), Trie,            *)
(*                            LongestCommonWord                            *)
(* A node is a record; its dict `children` is a sequence of                *)
(* [char, node] entries in insertion order, as a Python dict keeps them.   *)
(***************************************************************************)
EXTENDS Integers, Sequences, FiniteSets, TLC

\* ------------------------------------------------------------------ bounds
Symbols == {"a", "b"}
MaxLen == 2
MaxValue == 2
MaxOps == 3
MaxStrings == 2
MaxCalls == 2

\* None: the absent value of a node (and the default value of put)
None == 0

Values == {None} \cup (1..MaxValue)

\* all strings of at most n symbols
StrsUpTo(n) == UNION {[1..k -> Symbols] : k \in 0..n}
Strs == StrsUpTo(MaxLen)
\* an argument that is not a str: a one-element tuple holding no symbol
NotAString == <<"int">>
Args == Strs \cup {NotAString}

isinstance_str(x) == \A i \in 1..Len(x) : x[i] \in Symbols

\* root, size: a Homework instance; lcw_root, lcw_size: a LongestCommonWord
\* instance; last: the last call and its outcome; pre: the instance as it was
\* when that call began; nops: the calls made so far
VARIABLES root, size, lcw_root, lcw_size, last, pre, nops

vars == <<root, size, lcw_root, lcw_size, last, pre, nops>>

\* ------------------------------------------------- trie_homework_task1.py
TrieNode == [children |-> <<>>, value |-> None]

\* `char in node.children`
HasChild(node, char) == \E i \in 1..Len(node.children) : node.children[i].char = char

ChildIndex(node, char) == CHOOSE i \in 1..Len(node.children) : node.children[i].char = char

\* `node.children[char]`
GetChild(node, char) == node.children[ChildIndex(node, char)].node

\* `node.children[char] = child`: an existing entry keeps its place, a new one goes last
SetChild(node, char, child) ==
    IF HasChild(node, char)
    THEN [node EXCEPT !.children[ChildIndex(node, char)].node = child]
    ELSE [node EXCEPT !.children = Append(@, [char |-> char, node |-> child])]

\* `del node.children[char]`
DelChild(node, char) ==
    [node EXCEPT !.children = SelectSeq(@, LAMBDA e : e.char # char)]

\* put, lines 50-52: the size after the walk reached a node holding `old`
put_size(old, sz) == IF old = None THEN sz + 1 ELSE sz

\* a put that keeps the value a node already holds
put_value_keep(node, value) ==
    IF node.value = None THEN [node EXCEPT !.value = value] ELSE node

\* put, line 52: the node reached takes the value
put_value(node, value) == [node EXCEPT !.value = value]

\* put, lines 45-52: the walk from `node` along key[i..], creating missing nodes;
\* gives the rebuilt node and the new size
RECURSIVE put_walk(_, _, _, _, _)
put_walk(node, key, i, value, sz) ==
    IF i > Len(key)
    THEN [node |-> put_value(node, value), size |-> put_size(node.value, sz)]
    ELSE LET char == key[i]
             child == IF HasChild(node, char) THEN GetChild(node, char) ELSE TrieNode
             r == put_walk(child, key, i + 1, value, sz)
         IN  [node |-> SetChild(node, char, r.node), size |-> r.size]

\* get, lines 70-75
RECURSIVE get_walk(_, _, _)
get_walk(node, key, i) ==
    IF i > Len(key) THEN node.value
    ELSE IF ~HasChild(node, key[i]) THEN None
    ELSE get_walk(GetChild(node, key[i]), key, i + 1)

get(rt, key) == get_walk(rt, key, 1)

\* _delete, line 98: what the terminal node reports after its value is removed
delete_terminal_ret(node) == Len(node.children) = 0

\* a pruning test that forgets the value of the node
delete_prune_ret_childless(node) == Len(node.children) = 0

\* _delete, line 106: what a node reports after one of its children was removed
delete_prune_ret(node) == Len(node.children) = 0 /\ node.value = None

\* a _delete that removes at the terminal node without testing that it holds a value
RECURSIVE _delete_unchecked(_, _, _, _)
_delete_unchecked(node, key, depth, sz) ==
    IF depth = Len(key)
    THEN LET n == [node EXCEPT !.value = None]
         IN  [node |-> n, size |-> sz - 1, ret |-> delete_terminal_ret(n)]
    ELSE LET char == key[depth + 1] IN
         IF HasChild(node, char)
         THEN LET r == _delete_unchecked(GetChild(node, char), key, depth + 1, sz)
                  n1 == SetChild(node, char, r.node)
              IN  IF r.ret
                  THEN LET n2 == DelChild(n1, char)
                       IN  [node |-> n2, size |-> r.size, ret |-> delete_prune_ret(n2)]
                  ELSE [node |-> n1, size |-> r.size, ret |-> FALSE]
         ELSE [node |-> node, size |-> sz, ret |-> FALSE]

\* _delete, lines 93-107; depth counts from 0 as in the source.
\* gives the node after the call, the new size and the returned boolean
RECURSIVE _delete(_, _, _, _)
_delete(node, key, depth, sz) ==
    IF depth = Len(key)
    THEN IF node.value # None
         THEN LET n == [node EXCEPT !.value = None]
              IN  [node |-> n, size |-> sz - 1, ret |-> delete_terminal_ret(n)]
         ELSE [node |-> node, size |-> sz, ret |-> FALSE]
    ELSE LET char == key[depth + 1] IN
         IF HasChild(node, char)
         THEN LET r == _delete(GetChild(node, char), key, depth + 1, sz)
                  n1 == SetChild(node, char, r.node)
              IN  IF r.ret
                  THEN LET n2 == DelChild(n1, char)
                       IN  [node |-> n2, size |-> r.size, ret |-> delete_prune_ret(n2)]
                  ELSE [node |-> n1, size |-> r.size, ret |-> FALSE]
         ELSE [node |-> node, size |-> sz, ret |-> FALSE]

\* is_empty, line 118
is_empty(sz) == sz = 0

\* _collect, lines 175-189: the keys below `node`, depth first in dict order
RECURSIVE _collect(_, _)
RECURSIVE _collect_children(_, _, _)
_collect(node, path) ==
    (IF node.value # None THEN <<path>> ELSE <<>>) \o _collect_children(node, path, 1)
_collect_children(node, path, i) ==
    IF i > Len(node.children) THEN <<>>
    ELSE _collect(node.children[i].node, Append(path, node.children[i].char))
         \o _collect_children(node, path, i + 1)

\* the node reached from `node` along s[i..], or the missing-path marker
Missing == [missing |-> TRUE]
RECURSIVE descend(_, _, _)
descend(node, s, i) ==
    IF i > Len(s) THEN node
    ELSE IF ~HasChild(node, s[i]) THEN Missing
    ELSE descend(GetChild(node, s[i]), s, i + 1)

\* a keys_with_prefix that collects with an empty path instead of list(prefix)
keys_with_prefix_nopath(rt, prefix) ==
    LET current == descend(rt, prefix, 1)
    IN  IF current = Missing THEN <<>> ELSE _collect(current, <<>>)

\* keys_with_prefix, lines 165-173
keys_with_prefix(rt, prefix) ==
    LET current == descend(rt, prefix, 1)
    IN  IF current = Missing THEN <<>> ELSE _collect(current, prefix)

\* keys, lines 198-200
keys(rt) == _collect(rt, <<>>)

\* has_prefix, lines 242-247
has_prefix(rt, prefix) == descend(rt, prefix, 1) # Missing

\* a walk that takes every prefix it could follow for a stored key
lpo_update_any(node, longest_prefix, current_prefix) == current_prefix

\* longest_prefix_of, lines 143-144: a node holding a value makes its prefix the longest so far
lpo_update(node, longest_prefix, current_prefix) ==
    IF node.value # None THEN current_prefix ELSE longest_prefix

\* longest_prefix_of, lines 136-147: the walk along s[i..], stopped by the first missing edge
RECURSIVE lpo_walk(_, _, _, _, _)
lpo_walk(current, s, i, longest_prefix, current_prefix) ==
    IF i > Len(s) THEN longest_prefix
    ELSE IF HasChild(current, s[i])
         THEN LET next == GetChild(current, s[i])
                  prefix == Append(current_prefix, s[i])
              IN  lpo_walk(next, s, i + 1, lpo_update(next, longest_prefix, prefix), prefix)
         ELSE longest_prefix

\* longest_prefix_of, lines 120-147
longest_prefix_of(rt, s) == lpo_walk(rt, s, 1, <<>>, <<>>)

\* a test of the leading symbols in place of the trailing ones
startswith(key, pattern) ==
    /\ Len(pattern) <= Len(key)
    /\ SubSeq(key, 1, Len(pattern)) = pattern

\* `key.endswith(pattern)`, line 225
endswith(key, pattern) ==
    /\ Len(pattern) <= Len(key)
    /\ SubSeq(key, Len(key) - Len(pattern) + 1, Len(key)) = pattern

\* count_words_with_suffix, line 225: the sum over all_keys[i..]
RECURSIVE count_matching(_, _, _)
count_matching(all_keys, pattern, i) ==
    IF i > Len(all_keys) THEN 0
    ELSE (IF endswith(all_keys[i], pattern) THEN 1 ELSE 0)
         + count_matching(all_keys, pattern, i + 1)

\* count_words_with_suffix, lines 224-225
count_words_with_suffix(rt, pattern) == count_matching(keys(rt), pattern, 1)

\* ------------------------------------------------- longest_common_word.py
LcwTrieNode == [children |-> <<>>, value |-> None, pass_count |-> 0]

\* `current.pass_count += 1`, lines 53, 164 and 170
visit(node) == [node EXCEPT !.pass_count = @ + 1]

\* put, lines 47-57: every node after the root is visited on the way down
RECURSIVE lcw_put_walk(_, _, _, _, _)
lcw_put_walk(node, key, i, value, sz) ==
    IF i > Len(key)
    THEN [node |-> put_value(node, value), size |-> put_size(node.value, sz)]
    ELSE LET char == key[i]
             child == IF HasChild(node, char) THEN GetChild(node, char) ELSE LcwTrieNode
             r == lcw_put_walk(visit(child), key, i + 1, value, sz)
         IN  [node |-> SetChild(node, char, r.node), size |-> r.size]

\* _insert_with_passcount, lines 166-170: the walk below the node already visited
RECURSIVE insert_walk(_, _, _)
insert_walk(node, key, i) ==
    IF i > Len(key) THEN node
    ELSE LET char == key[i]
             child == IF HasChild(node, char) THEN GetChild(node, char) ELSE LcwTrieNode
         IN  SetChild(node, char, insert_walk(visit(child), key, i + 1))

\* _insert_with_passcount, lines 153-170: the root is visited too
_insert_with_passcount(rt, key) == insert_walk(visit(rt), key, 1)

\* find_longest_common_word, lines 124-127: the strings are inserted in list order
RECURSIVE insert_all(_, _, _)
insert_all(rt, strings, i) ==
    IF i > Len(strings) THEN rt
    ELSE insert_all(_insert_with_passcount(rt, strings[i]), strings, i + 1)

\* find_longest_common_word, line 138: the walk stops unless there is exactly one child
stop_on_children(current_node) == Len(current_node.children) # 1

\* a walk that never looks at the pass count
stop_on_pass_count_never(next_node, total_strings) == FALSE

\* find_longest_common_word, line 144: the walk stops at a child not every string shares
stop_on_pass_count(next_node, total_strings) == next_node.pass_count # total_strings

\* find_longest_common_word, lines 132-151: the downward walk
RECURSIVE lcp_walk(_, _, _)
lcp_walk(current_node, total_strings, longest_common_prefix) ==
    IF stop_on_children(current_node) THEN longest_common_prefix
    ELSE LET char == current_node.children[1].char
             next_node == current_node.children[1].node
         IN  IF stop_on_pass_count(next_node, total_strings)
             THEN longest_common_prefix
             ELSE lcp_walk(next_node, total_strings, Append(longest_common_prefix, char))

\* the arguments find_longest_common_word is called with: a list of at most
\* MaxStrings elements, each a str or not, or something that is not a list
Lists == UNION {[1..k -> Args] : k \in 0..MaxStrings}
FindArgs == [islist : {TRUE}, items : Lists] \cup {[islist |-> FALSE, items |-> <<>>]}

\* a validation that does not look at the elements of the list
rejected_unless_list(strings) ==
    \/ ~strings.islist
    \/ Len(strings.items) = 0

\* find_longest_common_word, lines 110-119: the inputs answered with "" at once
rejected(strings) ==
    \/ ~strings.islist
    \/ Len(strings.items) = 0
    \/ \E i \in 1..Len(strings.items) : ~isinstance_str(strings.items[i])

\* ------------------------------------------------------------- the calls
\* the record of the last call: its name, arguments, whether it raised
\* TypeError, and what it returned
Call(op, arg, value, raised, ret) ==
    [op |-> op, arg |-> arg, value |-> value, raised |-> raised, ret |-> ret]

Snapshot == [root |-> root, size |-> size]
LcwSnapshot == [root |-> lcw_root, size |-> lcw_size]

Init ==
    /\ root = TrieNode
    /\ size = 0
    /\ lcw_root = LcwTrieNode
    /\ lcw_size = 0
    /\ last = Call("init", <<>>, None, FALSE, None)
    /\ pre = [root |-> TrieNode, size |-> 0]
    /\ nops = 0

\* a put that tests the type of the key but not that it is non-empty
PutUnchecked ==
    \E key \in Args, value \in Values :
        /\ nops < MaxOps
        /\ nops' = nops + 1
        /\ pre' = Snapshot
        /\ IF ~isinstance_str(key)
           THEN /\ last' = Call("put", key, value, TRUE, None)
                /\ UNCHANGED <<root, size, lcw_root, lcw_size>>
           ELSE LET r == put_walk(root, key, 1, value, size)
                IN  /\ root' = r.node
                    /\ size' = r.size
                    /\ UNCHANGED <<lcw_root, lcw_size>>
                    /\ last' = Call("put", key, value, FALSE, None)

\* Trie.put, lines 29-52
Put ==
    \E key \in Args, value \in Values :
        /\ nops < MaxOps
        /\ nops' = nops + 1
        /\ pre' = Snapshot
        /\ IF ~isinstance_str(key) \/ Len(key) = 0
           THEN /\ last' = Call("put", key, value, TRUE, None)
                /\ UNCHANGED <<root, size, lcw_root, lcw_size>>
           ELSE LET r == put_walk(root, key, 1, value, size)
                IN  /\ root' = r.node
                    /\ size' = r.size
                    /\ UNCHANGED <<lcw_root, lcw_size>>
                    /\ last' = Call("put", key, value, FALSE, None)

\* Trie.get, lines 54-75
Get ==
    \E key \in Args :
        /\ nops < MaxOps
        /\ nops' = nops + 1
        /\ pre' = Snapshot
        /\ UNCHANGED <<root, size, lcw_root, lcw_size>>
        /\ IF ~isinstance_str(key) \/ Len(key) = 0
           THEN last' = Call("get", key, None, TRUE, None)
           ELSE last' = Call("get", key, None, FALSE, get(root, key))

\* Trie.delete, lines 77-109
Delete ==
    \E key \in Args :
        /\ nops < MaxOps
        /\ nops' = nops + 1
        /\ pre' = Snapshot
        /\ IF ~isinstance_str(key) \/ Len(key) = 0
           THEN /\ last' = Call("delete", key, None, TRUE, None)
                /\ UNCHANGED <<root, size, lcw_root, lcw_size>>
           ELSE LET r == _delete(root, key, 0, size)
                IN  /\ root' = r.node
                    /\ size' = r.size
                    /\ UNCHANGED <<lcw_root, lcw_size>>
                    /\ last' = Call("delete", key, None, FALSE, r.ret)

\* Trie.is_empty, lines 111-118
IsEmpty ==
    /\ nops < MaxOps
    /\ nops' = nops + 1
    /\ pre' = Snapshot
    /\ UNCHANGED <<root, size, lcw_root, lcw_size>>
    /\ last' = Call("is_empty", <<>>, None, FALSE, is_empty(size))

\* Trie.keys_with_prefix, lines 149-173
KeysWithPrefix ==
    \E prefix \in Args :
        /\ nops < MaxOps
        /\ nops' = nops + 1
        /\ pre' = Snapshot
        /\ UNCHANGED <<root, size, lcw_root, lcw_size>>
        /\ IF ~isinstance_str(prefix)
           THEN last' = Call("keys_with_prefix", prefix, None, TRUE, None)
           ELSE last' = Call("keys_with_prefix", prefix, None, FALSE, keys_with_prefix(root, prefix))

\* Trie.keys, lines 191-200
Keys ==
    /\ nops < MaxOps
    /\ nops' = nops + 1
    /\ pre' = Snapshot
    /\ UNCHANGED <<root, size, lcw_root, lcw_size>>
    /\ last' = Call("keys", <<>>, None, FALSE, keys(root))

\* Homework.has_prefix, lines 227-247
HasPrefix ==
    \E prefix \in Args :
        /\ nops < MaxOps
        /\ nops' = nops + 1
        /\ pre' = Snapshot
        /\ UNCHANGED <<root, size, lcw_root, lcw_size>>
        /\ IF ~isinstance_str(prefix)
           THEN last' = Call("has_prefix", prefix, None, TRUE, None)
           ELSE last' = Call("has_prefix", prefix, None, FALSE, has_prefix(root, prefix))

\* Trie.longest_prefix_of, lines 120-147
LongestPrefixOf ==
    \E s \in Args :
        /\ nops < MaxOps
        /\ nops' = nops + 1
        /\ pre' = Snapshot
        /\ UNCHANGED <<root, size, lcw_root, lcw_size>>
        /\ IF ~isinstance_str(s) \/ Len(s) = 0
           THEN last' = Call("longest_prefix_of", s, None, TRUE, None)
           ELSE last' = Call("longest_prefix_of", s, None, FALSE, longest_prefix_of(root, s))

\* Homework.count_words_with_suffix, lines 209-225
CountWordsWithSuffix ==
    \E pattern \in Args :
        /\ nops < MaxOps
        /\ nops' = nops + 1
        /\ pre' = Snapshot
        /\ UNCHANGED <<root, size, lcw_root, lcw_size>>
        /\ IF ~isinstance_str(pattern)
           THEN last' = Call("count_words_with_suffix", pattern, None, TRUE, None)
           ELSE last' = Call("count_words_with_suffix", pattern, None, FALSE,
                             count_words_with_suffix(root, pattern))

Next ==
    \/ Put \/ Get \/ Delete \/ IsEmpty \/ KeysWithPrefix \/ Keys \/ HasPrefix
    \/ LongestPrefixOf \/ CountWordsWithSuffix

Spec == Init /\ [][Next]_vars

\* longest_common_word.py, Trie.put, lines 31-57
LcwPut ==
    \E key \in Args, value \in Values :
        /\ nops < MaxCalls
        /\ nops' = nops + 1
        /\ pre' = LcwSnapshot
        /\ IF ~isinstance_str(key) \/ Len(key) = 0
           THEN /\ last' = Call("put", key, value, TRUE, None)
                /\ UNCHANGED <<root, size, lcw_root, lcw_size>>
           ELSE LET r == lcw_put_walk(lcw_root, key, 1, value, lcw_size)
                IN  /\ lcw_root' = r.node
                    /\ lcw_size' = r.size
                    /\ last' = Call("put", key, value, FALSE, None)
                    /\ UNCHANGED <<root, size>>

\* longest_common_word.py, Trie.get, lines 59-80
LcwGet ==
    \E key \in Args :
        /\ nops < MaxCalls
        /\ nops' = nops + 1
        /\ pre' = LcwSnapshot
        /\ UNCHANGED <<root, size, lcw_root, lcw_size>>
        /\ IF ~isinstance_str(key) \/ Len(key) = 0
           THEN last' = Call("get", key, None, TRUE, None)
           ELSE last' = Call("get", key, None, FALSE, get(lcw_root, key))

\* LongestCommonWord.find_longest_common_word, lines 92-151
FindLongestCommonWord ==
    \E strings \in FindArgs :
        /\ nops < MaxCalls
        /\ nops' = nops + 1
        /\ pre' = LcwSnapshot
        /\ UNCHANGED <<root, size, lcw_size>>
        /\ IF rejected(strings)
           THEN /\ last' = Call("find_longest_common_word", strings, None, FALSE, <<>>)
                /\ UNCHANGED lcw_root
           ELSE LET total_strings == Len(strings.items)
                    rt == insert_all(lcw_root, strings.items, 1)
                IN  /\ lcw_root' = rt
                    /\ last' = Call("find_longest_common_word", strings, None, FALSE,
                                    lcp_walk(rt, total_strings, <<>>))

NextLCW == LcwPut \/ LcwGet \/ FindLongestCommonWord

SpecLCW == Init /\ [][NextLCW]_vars

\* ------------------------------------------------------------ the claims
IsPrefix(p, s) == Len(p) <= Len(s) /\ SubSeq(s, 1, Len(p)) = p

Range(seq) == {seq[i] : i \in 1..Len(seq)}

NoDuplicates(seq) == \A i, j \in 1..Len(seq) : i # j => seq[i] # seq[j]

\* the number of nodes below and including `node` that hold a value
RECURSIVE CountTerminals(_)
RECURSIVE CountTerminalsFrom(_, _)
CountTerminals(node) ==
    (IF node.value # None THEN 1 ELSE 0) + CountTerminalsFrom(node, 1)
CountTerminalsFrom(node, i) ==
    IF i > Len(node.children) THEN 0
    ELSE CountTerminals(node.children[i].node) + CountTerminalsFrom(node, i + 1)

\* the keys stored in the trie: those whose path ends at a node holding a value
StoredKeys(rt) ==
    {k \in Strs : Len(k) > 0 /\ descend(rt, k, 1) # Missing /\ descend(rt, k, 1).value # None}

\* no node below `node` is a dead end (no children and no value)
RECURSIVE NoDeadEndBelow(_)
NoDeadEndBelow(node) ==
    \A i \in 1..Len(node.children) :
        LET child == node.children[i].node
        IN  /\ ~(Len(child.children) = 0 /\ child.value = None)
            /\ NoDeadEndBelow(child)

Returned(op) == last.op = op /\ ~last.raised

\* C1: size is the number of nodes reachable from root that hold a value,
\* which is the number of keys keys() returns
C1_SizeCountsTerminals ==
    /\ size = CountTerminals(root)
    /\ size = Len(keys(root))

\* C2: delete(key) returns True exactly when key was stored before the call
\* and its value was removed
C2_DeleteReturnsRemoved ==
    Returned("delete") =>
        (last.ret <=> (get(pre.root, last.arg) # None /\ get(root, last.arg) = None))

\* p is the longest string that is a prefix of every element of items
IsLongestCommonPrefix(p, items) ==
    /\ \A i \in 1..Len(items) : IsPrefix(p, items[i])
    /\ \A q \in Strs : (\A i \in 1..Len(items) : IsPrefix(q, items[i])) => Len(q) <= Len(p)

FoundFor ==
    /\ Returned("find_longest_common_word")
    /\ ~rejected(last.arg)

\* C3: the first call on a new LongestCommonWord instance, given a non-empty
\* list of strings, returns their longest common prefix
C3_FreshFindIsLongestCommonPrefix ==
    (FoundFor /\ nops = 1) => IsLongestCommonPrefix(last.ret, last.arg.items)

\* a first call on two different strings, one a prefix of the other, that
\* found a non-empty prefix
C3_Witness ==
    /\ FoundFor /\ nops = 1
    /\ Len(last.arg.items) = 2
    /\ last.arg.items[1] # last.arg.items[2]
    /\ IsPrefix(last.arg.items[1], last.arg.items[2])
    /\ Len(last.ret) > 0

\* C4: every call of find_longest_common_word returns the longest common
\* prefix of its own argument, whatever was called on the instance before
C4_FindDependsOnlyOnArgument ==
    FoundFor => IsLongestCommonPrefix(last.ret, last.arg.items)

\* C5: right after put(k, v), get(k) is v
C5_GetAfterPut ==
    Returned("put") => get(root, last.arg) = last.value

\* a put that replaced one value by another
C5_Witness ==
    /\ Returned("put")
    /\ last.value # None
    /\ get(pre.root, last.arg) \notin {None, last.value}
    /\ get(root, last.arg) = last.value

\* C6: after delete(k) of a stored key k, get(k) is absent, size is one less,
\* and is_empty() holds exactly when k was the last stored key
C6_DeleteStoredKey ==
    (Returned("delete") /\ get(pre.root, last.arg) # None) =>
        /\ get(root, last.arg) = None
        /\ size = pre.size - 1
        /\ is_empty(size) <=> (StoredKeys(pre.root) = {last.arg})

\* C7: when a delete has completed, no node other than root is a dead end
C7_NoDeadEndAfterDelete ==
    Returned("delete") => NoDeadEndBelow(root)

\* C8: a put of the key that was just put does not change size
C8_SecondPutKeepsSize ==
    [][(/\ last.op = "put" /\ ~last.raised
        /\ last'.op = "put" /\ ~last'.raised
        /\ nops' = nops + 1
        /\ last'.arg = last.arg) => size' = size]_vars

\* C9: has_prefix(prefix) is True exactly when some stored key starts with prefix
C9_HasPrefixIffStoredKey ==
    Returned("has_prefix") =>
        (last.ret <=> \E k \in StoredKeys(root) : IsPrefix(last.arg, k))

\* res holds, each once, the keys k with get(k) non-absent that p is a prefix of
KeysWithPrefixAre(res, rt, p) ==
    /\ NoDuplicates(res)
    /\ Range(res) = {k \in Strs : Len(k) > 0 /\ get(rt, k) # None /\ IsPrefix(p, k)}

\* C10: keys_with_prefix(p) returns, each once, exactly the keys k with
\* get(k) non-absent that p is a prefix of; keys() does so for the empty p
C10_KeysWithPrefix ==
    /\ Returned("keys_with_prefix") => KeysWithPrefixAre(last.ret, root, last.arg)
    /\ Returned("keys") => KeysWithPrefixAre(last.ret, root, <<>>)
    /\ \A p \in Strs : KeysWithPrefixAre(keys_with_prefix(root, p), root, p)

\* keys_with_prefix of a non-empty prefix that found two keys or more
C10_Witness ==
    /\ Returned("keys_with_prefix")
    /\ Len(last.arg) > 0
    /\ Len(last.ret) >= 2

\* C11: longest_prefix_of(s) returns the longest prefix of s that is a stored
\* key, or "" when no prefix of s is stored; the result is a prefix of s
LongestStoredPrefix(res, rt, s) ==
    /\ IsPrefix(res, s)
    /\ res # <<>> => res \in StoredKeys(rt)
    /\ \A k \in StoredKeys(rt) : IsPrefix(k, s) => Len(k) <= Len(res)

C11_LongestPrefixOf ==
    /\ Returned("longest_prefix_of") => LongestStoredPrefix(last.ret, root, last.arg)
    /\ \A s \in Strs \ {<<>>} : LongestStoredPrefix(longest_prefix_of(root, s), root, s)

\* a call that found a stored key shorter than s although the path of s goes further
C11_Witness ==
    /\ Returned("longest_prefix_of")
    /\ last.ret # <<>>
    /\ Len(last.ret) < Len(last.arg)
    /\ has_prefix(root, last.arg)

\* C12: delete(k) of a key that is not stored (its path is missing, or ends at
\* a node without a value) returns False and leaves size and the tree as they were
C12_DeleteAbsentKey ==
    (Returned("delete") /\ last.arg \notin StoredKeys(pre.root)) =>
        /\ last.ret = FALSE
        /\ root = pre.root
        /\ size = pre.size

\* a delete of a key that is not stored although its path exists and other keys are stored
C12_Witness ==
    /\ Returned("delete")
    /\ last.arg \notin StoredKeys(pre.root)
    /\ has_prefix(pre.root, last.arg)
    /\ StoredKeys(root) # {}

\* C13: put, get, delete and longest_prefix_of called with the empty string
\* raise TypeError and leave size and the tree as they were
C13_EmptyKeyRaises ==
    (last.op \in {"put", "get", "delete", "longest_prefix_of"} /\ last.arg = <<>>) =>
        /\ last.raised
        /\ root = pre.root
        /\ size = pre.size

\* a put of the empty key on a trie that holds a key
C13_Witness ==
    /\ last.op = "put"
    /\ last.arg = <<>>
    /\ last.raised
    /\ StoredKeys(root) # {}

\* the trailing symbols of s are p
IsSuffix(p, s) == \E q \in Strs : q \o p = s

\* C14: count_words_with_suffix(pattern) is the number of stored keys whose
\* trailing symbols are pattern; for the empty pattern, the number of stored keys
SuffixCountIs(n, rt, pattern) ==
    /\ n = Cardinality({k \in StoredKeys(rt) : IsSuffix(pattern, k)})
    /\ pattern = <<>> => n = Cardinality(StoredKeys(rt))

C14_CountWordsWithSuffix ==
    /\ Returned("count_words_with_suffix") => SuffixCountIs(last.ret, root, last.arg)
    /\ \A p \in Strs : SuffixCountIs(count_words_with_suffix(root, p), root, p)

\* a count for a non-empty pattern that some stored keys end with and others do not
C14_Witness ==
    /\ Returned("count_words_with_suffix")
    /\ last.arg # <<>>
    /\ last.ret >= 1
    /\ last.ret < Cardinality(StoredKeys(root))

\* an argument that is not a list, is an empty list, or holds an element that is not a string
Malformed(strings) ==
    \/ ~strings.islist
    \/ strings.items = <<>>
    \/ \E i \in 1..Len(strings.items) : strings.items[i] \notin Strs

C16_OtherKeysUntouched ==
    (Returned("put") \/ Returned("delete")) =>
        \A k \in Strs \ {<<>>, last.arg} : get(root, k) = get(pre.root, k)

\* a delete that pruned the node of its key from a branch on which a shorter key stays stored
C16_Witness ==
    /\ Returned("delete")
    /\ last.arg \in StoredKeys(pre.root)
    /\ ~has_prefix(root, last.arg)
    /\ \E k \in StoredKeys(root) : IsPrefix(k, last.arg)

\* the pass count of the node at path p, 0 where there is no such node
PassCount(rt, p) ==
    IF descend(rt, p, 1) = Missing THEN 0 ELSE descend(rt, p, 1).pass_count

\* the keys of the insertion operations the last call performed, in order
InsertedByLast ==
    IF Returned("put") THEN <<last.arg>>
    ELSE IF FoundFor THEN last.arg.items
    ELSE <<>>

\* how many of the insertions of `inserted` visit the node at path p
Visits(p, inserted) == Cardinality({i \in 1..Len(inserted) : IsPrefix(p, inserted[i])})

\* C17: the pass count of every node, root included, is the number of
\* insertion operations (put, and the insertions of find_longest_common_word)
\* that visited it: each call adds to every node exactly the visits of its
\* insertions, so no pass count ever decreases
C17_PassCountCountsVisits ==
    last.op # "init" =>
        \A p \in Strs : PassCount(lcw_root, p) = PassCount(pre.root, p) + Visits(p, InsertedByLast)

\* C18: the prefix find_longest_common_word returns is never longer than the
\* shortest string of its list, in every call of any sequence of calls
C18_PrefixWithinShortestString ==
    FoundFor => \A i \in 1..Len(last.arg.items) : Len(last.ret) <= Len(last.arg.items[i])

====
